---- MODULE Spec2Model ----
(***************************************************************************)
(* Model of the traffic-control rule compiler of chaosd                    *)
(* (pkg/server/chaosd/tc.go): Server.SetContainerTcRules and the tcClient   *)
(* it drives, together with the kernel qdisc tree of the target network     *)
(* namespace and the packet-filter collaborator.                            *)
(*                                                                          *)
(* Strings.  A Go string that the code later cuts with                      *)
(* strings.Split(s, " ") is represented by the result of that split: a      *)
(* non-empty sequence of space-free tokens.  The empty string is <<"">>,    *)
(* and fmt.Sprintf("%s %s", a, b) is the concatenation a \o b.              *)
(***************************************************************************)
EXTENDS Integers, Sequences, FiniteSets, TLC

(***************************************************************************)
(* Bounds of the model.                                                     *)
(***************************************************************************)
\* longest rule list drawn for in.Tcs (the documented example is added to it)
MaxTcs == 3

\* largest Frequency and ConcurrentNum drawn for the redis attack
MaxFrequency == 4
MaxConcurrentNum == 3

(***************************************************************************)
(* Number formatting (fmt verbs %d and %f).                                 *)
(***************************************************************************)
Digit(d) ==
    CASE d = 0 -> "0" [] d = 1 -> "1" [] d = 2 -> "2" [] d = 3 -> "3"
      [] d = 4 -> "4" [] d = 5 -> "5" [] d = 6 -> "6" [] d = 7 -> "7"
      [] d = 8 -> "8" [] d = 9 -> "9"

RECURSIVE Itoa(_)
\* %d of a non-negative integer
Itoa(n) == IF n < 10 THEN Digit(n) ELSE Itoa(n \div 10) \o Digit(n % 10)

\* %f of a non-negative float given in hundredths (50 is 0.5): six decimals
Ftoa(h) ==
    Itoa(h \div 100) \o "." \o Digit((h % 100) \div 10) \o Digit(h % 10) \o "0000"

(***************************************************************************)
(* Sequence helpers.                                                        *)
(***************************************************************************)
RECURSIVE SeqFilterNonEmpty(_)
\* the loop of lines 362-366: keep the parts with len(part) > 0
SeqFilterNonEmpty(s) ==
    IF s = <<>> THEN <<>>
    ELSE IF Head(s) = "" THEN SeqFilterNonEmpty(Tail(s))
         ELSE <<Head(s)>> \o SeqFilterNonEmpty(Tail(s))

\* strings.Join(parts, " ") in the split representation: joining nothing
\* gives the empty string
JoinSpace(parts) == IF parts = <<>> THEN <<"">> ELSE parts

\* fmt.Sprintf("%s <rest>", args, ...) in the split representation
Sp(args, rest) == args \o rest

Range(s) == {s[k] : k \in 1..Len(s)}

(***************************************************************************)
(* The argument codec.                                                      *)
(***************************************************************************)
\* a pb.Netem payload; probabilities and correlations are in hundredths
NetemOf(time, jitter, loss) ==
    [Time |-> time, Jitter |-> jitter, DelayCorr |-> 0, Reorder |-> 0,
     ReorderCorr |-> 0, Gap |-> 0, Limit |-> 0, Loss |-> loss, LossCorr |-> 0,
     Duplicate |-> 0, DuplicateCorr |-> 0, Corrupt |-> 0, CorruptCorr |-> 0]

\* mutant of convertNetemDelay: the reorder group does not depend on the delay
convertNetemDelay_reorderAlone(netem) ==
    LET a2 == IF netem.Time > 0
              THEN LET a1 == <<"delay", Itoa(netem.Time)>>
                   IN  IF netem.Jitter > 0
                       THEN LET j == Sp(a1, <<Itoa(netem.Jitter)>>)
                            IN  IF netem.DelayCorr > 0
                                THEN Sp(j, <<Ftoa(netem.DelayCorr)>>) ELSE j
                       ELSE a1
              ELSE <<"">>
    IN  IF netem.Reorder > 0
        THEN LET r1 == Sp(a2, <<"reorder", Ftoa(netem.Reorder)>>)
                 r2 == IF netem.ReorderCorr > 0
                       THEN Sp(r1, <<Ftoa(netem.ReorderCorr)>>) ELSE r1
             IN  IF netem.Gap > 0 THEN Sp(r2, <<"gap", Itoa(netem.Gap)>>) ELSE r2
        ELSE a2

\* lines 311-334: the delay group and, inside it, the reorder group
convertNetemDelay(netem) ==
    IF netem.Time > 0
    THEN LET a1 == <<"delay", Itoa(netem.Time)>>
             a2 == IF netem.Jitter > 0
                   THEN LET j == Sp(a1, <<Itoa(netem.Jitter)>>)
                        IN  IF netem.DelayCorr > 0
                            THEN Sp(j, <<Ftoa(netem.DelayCorr)>>) ELSE j
                   ELSE a1
             a3 == IF netem.Reorder > 0
                   THEN LET r1 == Sp(a2, <<"reorder", Ftoa(netem.Reorder)>>)
                            r2 == IF netem.ReorderCorr > 0
                                  THEN Sp(r1, <<Ftoa(netem.ReorderCorr)>>) ELSE r1
                        IN  IF netem.Gap > 0
                            THEN Sp(r2, <<"gap", Itoa(netem.Gap)>>) ELSE r2
                   ELSE a2
         IN  a3
    ELSE <<"">>

convertNetemProb(args, keyword, prob, corr) ==
    IF prob > 0
    THEN LET p == Sp(args, <<keyword, Ftoa(prob)>>)
         IN  IF corr > 0 THEN Sp(p, <<Ftoa(corr)>>) ELSE p
    ELSE args

convertNetemToArgs(netem) ==
    LET a0 == convertNetemDelay(netem)
        a1 == IF netem.Limit > 0 THEN Sp(a0, <<"limit", Itoa(netem.Limit)>>) ELSE a0
        a2 == convertNetemProb(a1, "loss", netem.Loss, netem.LossCorr)
        a3 == convertNetemProb(a2, "duplicate", netem.Duplicate, netem.DuplicateCorr)
        a4 == convertNetemProb(a3, "corrupt", netem.Corrupt, netem.CorruptCorr)
    IN  JoinSpace(SeqFilterNonEmpty(a4))

\* mutant of convertTbfToArgs: mtu is given the burst size
convertTbfToArgs_mtuFromBuffer(tbf) ==
    LET a0 == <<"rate", Itoa(tbf.Rate), "burst", Itoa(tbf.Buffer)>>
        a1 == IF tbf.Limit > 0 THEN Sp(a0, <<"limit", Itoa(tbf.Limit)>>) ELSE a0
    IN  IF tbf.PeakRate > 0
        THEN Sp(a1, <<"peakrate", Itoa(tbf.PeakRate), "mtu", Itoa(tbf.Buffer)>>)
        ELSE a1

convertTbfToArgs(tbf) ==
    LET a0 == <<"rate", Itoa(tbf.Rate), "burst", Itoa(tbf.Buffer)>>
        a1 == IF tbf.Limit > 0 THEN Sp(a0, <<"limit", Itoa(tbf.Limit)>>) ELSE a0
    IN  IF tbf.PeakRate > 0
        THEN Sp(a1, <<"peakrate", Itoa(tbf.PeakRate), "mtu", Itoa(tbf.MinBurst)>>)
        ELSE a1

(***************************************************************************)
(* Errors.  An error value is its message, and whether a stack trace has    *)
(* been attached to it; NilErr is Go's nil error.                           *)
(***************************************************************************)
NilErr == [nil |-> TRUE, msg |-> <<>>, stack |-> FALSE]

\* fmt.Errorf / errors.New with a fixed message
Errorf(msg) == [nil |-> FALSE, msg |-> msg, stack |-> FALSE]

\* github.com/pingcap/errors WithStack: nil stays nil, otherwise the same
\* error (same message, same cause) annotated with the caller's stack
WithStack(err) == IF err.nil THEN err ELSE [err EXCEPT !.stack = TRUE]

\* errors.Cause: the error below the stack annotation
Cause(err) == [err EXCEPT !.stack = FALSE]

\* the wrapper around a failed command: a new error made of the runner's
\* error and the command's combined output
encodeOutputToError(output, err) ==
    Errorf(<<"error code:">> \o err.msg \o <<"msg:">> \o output)

(***************************************************************************)
(* Requests.                                                                *)
(***************************************************************************)
Procs == {1, 2}
Namespaces == {"ns1", "ns2"}

Nil == <<>>

NetemTc(ipset, time) ==
    [Type |-> "NETEM", Ipset |-> ipset, Netem |-> <<NetemOf(time, 0, 0)>>, Tbf |-> Nil]

TbfTc(ipset) ==
    [Type |-> "BANDWIDTH", Ipset |-> ipset, Netem |-> Nil,
     Tbf |-> <<[Rate |-> 1000, Buffer |-> 100, Limit |-> 0, PeakRate |-> 0, MinBurst |-> 0]>>]

\* the rules a request is drawn from: valid netem and tbf rules with and
\* without an ipset, a netem rule whose fields are all zero, a NETEM rule
\* without payload and a rule of an unknown type
TcChoices ==
    {NetemTc("", 50000), NetemTc("A", 50000),
     NetemTc("", 100000), NetemTc("B", 100000),
     NetemTc("", 0),
     TbfTc("A"),
     [Type |-> "NETEM", Ipset |-> "", Netem |-> Nil, Tbf |-> Nil],
     [Type |-> "UNKNOWN", Ipset |-> "A", Netem |-> Nil, Tbf |-> Nil]}

\* the four rules of the example in the comment of SetContainerTcRules
ExampleTcs ==
    <<NetemTc("", 50000), NetemTc("", 100000), NetemTc("A", 50000), NetemTc("B", 100000)>>

\* rules at the edge of what addTc accepts: a BANDWIDTH rule without payload,
\* a BANDWIDTH rule whose rate is not set, a NETEM rule without payload in a
\* destination set, and a rule of an unknown type without destination set
EdgeChoices ==
    {[Type |-> "BANDWIDTH", Ipset |-> "", Netem |-> Nil, Tbf |-> Nil],
     [Type |-> "BANDWIDTH", Ipset |-> "", Netem |-> Nil,
      Tbf |-> <<[Rate |-> 0, Buffer |-> 100, Limit |-> 0, PeakRate |-> 0, MinBurst |-> 0]>>],
     [Type |-> "NETEM", Ipset |-> "A", Netem |-> Nil, Tbf |-> Nil],
     [Type |-> "UNKNOWN", Ipset |-> "", Netem |-> Nil, Tbf |-> Nil]}

\* an edge rule alone, and after a global or a filtered rule
EdgeTcLists ==
    {<<e>> : e \in EdgeChoices}
    \cup {<<first, e>> : first \in {NetemTc("", 50000), NetemTc("A", 50000),
                                     NetemTc("B", 100000)},
                         e \in EdgeChoices}

TcLists ==
    UNION {[1..n -> TcChoices] : n \in 0..MaxTcs} \cup {ExampleTcs} \cup EdgeTcLists

(***************************************************************************)
(* The rule partition of lines 107-117.                                     *)
(***************************************************************************)
IsGlobal(tc) == tc.Ipset = ""

globalTcOf(tcs) == SelectSeq(tcs, IsGlobal)

\* the keys of the filterTc map
filterKeys(tcs) == {tcs[k].Ipset : k \in {j \in 1..Len(tcs) : ~IsGlobal(tcs[j])}}

\* filterTc[ipset]: the rules carrying ipset, in input order
filterTcOf(tcs, ipset) == LET Has(tc) == tc.Ipset = ipset IN SelectSeq(tcs, Has)

(***************************************************************************)
(* The commands SetContainerTcRules builds.                                 *)
(***************************************************************************)
ruleNotExist == "Cannot delete qdisc with handle of zero."
ruleNotExistLowerVersion == "RTNETLINK answers: No such file or directory"
RULE_NOT_EXIST == "RTNETLINK answers: No such file or directory"

\* strings.Contains(output, pattern); an output is the sequence of its pieces
Contains(output, pattern) == pattern \in Range(output)

flushArgv == <<"tc", "qdisc", "del", "dev", "eth0", "root">>

\* flush, lines 207-213: the error flush returns for a failed command
flushError(output, err) ==
    IF ~Contains(output, RULE_NOT_EXIST) THEN err ELSE NilErr

\* mutant of globalParentArg: the parent is numbered like the node's own handle
globalParentArg_ownHandle(index) ==
    IF index > 0 THEN <<"parent", Itoa(index + 1) \o ":">> ELSE <<"root">>

\* lines 120-123
globalParentArg(index) ==
    IF index > 0 THEN <<"parent", Itoa(index) \o ":">> ELSE <<"root">>

\* mutant of globalHandleArg: handles numbered from the loop index
globalHandleArg_zeroBased(index) == <<"handle", Itoa(index) \o ":">>

\* line 125
globalHandleArg(index) == <<"handle", Itoa(index + 1) \o ":">>

\* mutant of prioBand: one band per filtered rule instead of one per set
prioBand_perRule(tcs) == 3 + Len(SelectSeq(tcs, LAMBDA tc : ~IsGlobal(tc)))

\* line 135: 3 + len(filterTc)
prioBand(tcs) == 3 + Cardinality(filterKeys(tcs))

\* addPrio, lines 249-254
prioArgv(parent, band) ==
    <<"tc", "qdisc", "add", "dev", "eth0">>
      \o (IF parent > 0 THEN <<"parent", Itoa(parent) \o ":">> ELSE <<"root">>)
      \o <<"handle", Itoa(parent + 1) \o ":", "prio", "bands", Itoa(band), "priomap",
           "1", "2", "2", "2", "1", "2", "0", "0", "1", "1", "1", "1", "1", "1", "1", "1">>

\* mutant of sfqArgv: the leaf handles start at the prio qdisc's own handle
sfqArgv_handleFromPrio(parent, index) ==
    <<"tc", "qdisc", "add", "dev", "eth0", "parent",
      Itoa(parent + 1) \o ":" \o Itoa(index),
      "handle", Itoa(parent + index) \o ":", "sfq">>

\* addPrio, lines 261-262
sfqArgv(parent, index) ==
    <<"tc", "qdisc", "add", "dev", "eth0", "parent",
      Itoa(parent + 1) \o ":" \o Itoa(index),
      "handle", Itoa(parent + 1 + index) \o ":", "sfq">>

\* mutant of firstHandler: the three sfq handles are not skipped
firstHandler_noSfq(parent) == parent

\* line 145, after parent++
firstHandler(parent) == parent + 3

\* lines 155-158
filterParentArg(parent, index, i, currentHandler) ==
    IF i > 0 THEN <<"parent", Itoa(currentHandler) \o ":">>
    ELSE <<"parent", Itoa(parent) \o ":" \o Itoa(index + 4)>>

\* line 161, after currentHandler++
filterHandleArg(currentHandler) == <<"handle", Itoa(currentHandler) \o ":">>

\* mutant of chainOf: the class is counted from the last default band
chainOf_defaultBand(index, ipset, parent) ==
    [Name |-> "TC-TABLES-" \o Itoa(index),
     Direction |-> "OUTPUT",
     Ipsets |-> <<ipset>>,
     Target |-> <<"CLASSIFY", "--set-class", Itoa(parent) \o ":" \o Itoa(index + 3)>>]

\* lines 170-175
chainOf(index, ipset, parent) ==
    [Name |-> "TC-TABLES-" \o Itoa(index),
     Direction |-> "OUTPUT",
     Ipsets |-> <<ipset>>,
     Target |-> <<"CLASSIFY", "--set-class", Itoa(parent) \o ":" \o Itoa(index + 4)>>]

\* addTc, lines 219-241: the error returned before any command is run
addTcError(tc) ==
    IF tc.Type = "BANDWIDTH"
    THEN IF tc.Tbf = Nil THEN Errorf(<<"tbf is nil while type is BANDWIDTH">>) ELSE NilErr
    ELSE IF tc.Type = "NETEM"
         THEN IF tc.Netem = Nil THEN Errorf(<<"netem is nil while type is NETEM">>) ELSE NilErr
         ELSE Errorf(<<"unknown tc qdisc type">>)

\* addNetem line 275-276 and addTbf line 287-288: the command of a valid rule
addTcArgv(parentArg, handleArg, tc) ==
    <<"tc", "qdisc", "add", "dev", "eth0">> \o parentArg \o handleArg
      \o (IF tc.Type = "BANDWIDTH"
          THEN <<"tbf">> \o convertTbfToArgs(tc.Tbf[1])
          ELSE <<"netem">> \o convertNetemToArgs(tc.Netem[1]))

(***************************************************************************)
(* The environment: the tc tool and the kernel's qdisc tree of a            *)
(* namespace, the packet-filter collaborator, the container runtime.        *)
(* A qdisc is [handle, parent, kind, bands].                                *)
(***************************************************************************)
ExitError == Errorf(<<"exit status 2">>)

MaxBandsRead == MaxTcs + 5

\* tc's reading of a number
Atoi(tok) ==
    IF \E n \in 0..MaxBandsRead : Itoa(n) = tok
    THEN CHOOSE n \in 0..MaxBandsRead : Itoa(n) = tok
    ELSE 0

\* tc's reading of "qdisc add dev eth0 (root | parent P) handle H KIND ..."
TcParent(argv) == IF argv[6] = "root" THEN "root" ELSE argv[7]
TcHandleAt(argv) == IF argv[6] = "root" THEN 8 ELSE 9
TcHandle(argv) == argv[TcHandleAt(argv)]
TcKind(argv) == argv[TcHandleAt(argv) + 1]
TcBands(argv) ==
    IF TcKind(argv) = "prio" THEN Atoi(argv[TcHandleAt(argv) + 3]) ELSE 0

\* the qdisc's own parameters: what follows the kind
TcArgs(argv) == SubSeq(argv, TcHandleAt(argv) + 2, Len(argv))

TcQdisc(argv) ==
    [handle |-> TcHandle(argv), parent |-> TcParent(argv),
     kind |-> TcKind(argv), bands |-> TcBands(argv), args |-> TcArgs(argv)]

\* a parent reference names root, a qdisc N: of the tree, or a band N:b of a
\* prio qdisc of the tree with 1 <= b <= bands
ParentIn(tree, parent) ==
    \/ parent = "root"
    \/ \E q \in tree :
          \/ parent = q.handle
          \/ q.kind = "prio" /\ \E b \in 1..q.bands : parent = q.handle \o Itoa(b)

\* the kernel accepts an add whose parent exists, whose handle is new, that
\* does not add a second root, and whose arguments tc can read (no empty
\* argument, and a tbf rate that is set)
CanAdd(tree, argv) ==
    /\ "" \notin Range(argv)
    /\ TcKind(argv) = "tbf" => SubSeq(TcArgs(argv), 1, 2) # <<"rate", "0">>
    /\ ParentIn(tree, TcParent(argv))
    /\ TcParent(argv) = "root" => ~\E q \in tree : q.parent = "root"
    /\ ~\E q \in tree : q.handle = TcHandle(argv)

\* outcomes of "tc qdisc add": [ok, err, output, tree]
KernelAdd(tree, argv) ==
    {[ok |-> FALSE, err |-> ExitError, output |-> <<"RTNETLINK answers: ", "error">>,
      tree |-> tree]}
    \cup (IF CanAdd(tree, argv)
          THEN {[ok |-> TRUE, err |-> NilErr, output |-> <<>>,
                 tree |-> tree \cup {TcQdisc(argv)}]}
          ELSE {})

\* outcomes of "tc qdisc del dev eth0 root": with a root qdisc the whole tree
\* goes; without one the command fails with the message of the tool's version
KernelDelRoot(tree) ==
    {[ok |-> FALSE, err |-> ExitError, output |-> <<"Cannot open network namespace">>,
      tree |-> tree]}
    \cup (IF tree # {}
          THEN {[ok |-> TRUE, err |-> NilErr, output |-> <<>>, tree |-> {}]}
          ELSE {[ok |-> FALSE, err |-> ExitError, output |-> <<"Error: ", m>>, tree |-> tree]
                  : m \in {ruleNotExist, ruleNotExistLowerVersion}})

\* outcomes of the packet-filter collaborator's setIptablesChains
IptablesSet(installed, chains) ==
    {[ok |-> TRUE, err |-> NilErr, installed |-> chains],
     [ok |-> FALSE, err |-> Errorf(<<"iptables: failed to set chains">>),
      installed |-> installed]}

\* outcomes of criCli.GetPidFromContainerID
GetPid == {NilErr, Errorf(<<"container not found">>)}

(***************************************************************************)
(* State.                                                                   *)
(***************************************************************************)
VARIABLES
    req,        \* req[p]: the request of invocation p: its namespace and in.Tcs
    st,         \* st[p]: position and local variables of invocation p
    ops,        \* ops[p]: the external operations invocation p has issued
    qdiscs,     \* qdiscs[ns]: the kernel's qdisc tree of namespace ns
    iptChains,  \* iptChains[ns]: the chains the packet filter holds for ns
    cancelled,  \* cancelled[p]: the context of invocation p has been cancelled
    codec,      \* a payload handed to the argument codec, and its encoding
    redis       \* the cache-penetration attack: its main routine and workers

vars == <<req, st, ops, qdiscs, iptChains, cancelled, codec, redis>>

\* the redis attack before it is asked for
RedisIdle == [pc |-> "idle", Frequency |-> 0, ConcurrentNum |-> 1, num |-> 0, i |-> 0,
              concurrentNum |-> 1, wg |-> 0, gets |-> 0, dones |-> 0, workers |-> <<>>]

\* the codec before a payload is handed to it
CodecIdle == [kind |-> "none", netem |-> NetemOf(0, 0, 0), tbf |-> Nil, args |-> <<>>,
              done |-> FALSE]

\* mutant of nsPathOf: the commands do not enter the target's namespace
nsPathOf_host(p) == "ns1"

\* lines 76-77 and SetNetNS(c.nsPath): the namespace p's commands run in
nsPathOf(p) == req[p].ns

\* mutant of ctxDone: the commands are built without the caller's context
ctxDone_background(p) == FALSE

\* SetContext(c.ctx) of lines 205, 254, 262, 276, 288 and
\* buildIptablesClient(ctx, nsPath) of line 147: whether the context the
\* command carries is done
ctxDone(p) == cancelled[p]

\* the command runner: a command whose context is done is not run and fails
\* with the context's error; otherwise the outcome is the tool's
RunCommand(done, outcomes, unchanged) ==
    IF done
    THEN {[unchanged EXCEPT !.ok = FALSE, !.err = Errorf(<<"context canceled">>)]}
    ELSE outcomes

\* qdisc trees a namespace may hold when an invocation starts
PriorTrees ==
    {{}, {[handle |-> "1:", parent |-> "root", kind |-> "netem", bands |-> 0,
           args |-> <<"delay", "50000">>]}}

IdleSt ==
    [pc |-> "idle", index |-> 0, parent |-> 0, currentHandler |-> 0, i |-> 0,
     ipset |-> "", visited |-> {}, chains |-> <<>>, ret |-> NilErr]

\* one invocation, on ns1
Init ==
    /\ \E tcs \in TcLists :
          req = [p \in Procs |-> IF p = 1 THEN [ns |-> "ns1", Tcs |-> tcs]
                                 ELSE [ns |-> "ns2", Tcs |-> <<>>]]
    /\ st = [p \in Procs |-> IF p = 1 THEN [IdleSt EXCEPT !.pc = "start"] ELSE IdleSt]
    /\ ops = [p \in Procs |-> <<>>]
    /\ \E t \in PriorTrees : qdiscs = [ns \in Namespaces |-> IF ns = "ns1" THEN t ELSE {}]
    /\ iptChains = [ns \in Namespaces |-> <<>>]
    /\ cancelled = [p \in Procs |-> FALSE]
    /\ codec = CodecIdle
    /\ redis = RedisIdle

(***************************************************************************)
(* Steps of SetContainerTcRules.  Each action is one external operation     *)
(* together with the code that follows it up to the next one.               *)
(***************************************************************************)
\* mutant of Return: the error is recorded but the function goes on
Return_goesOn(s, err) == [s EXCEPT !.ret = err]

\* the return statements of lines 73, 80, 130, 139, 166, 181 and 184
Return(s, err) == [s EXCEPT !.pc = "done", !.ret = err]

TcOp(argv, o) ==
    [kind |-> "tc", argv |-> argv, chains |-> <<>>, ok |-> o.ok, err |-> o.err,
     output |-> o.output]

\* the loop head of line 119 and, after the loop, lines 134-135
EnterGlobal(s, tcs, index) ==
    IF index < Len(globalTcOf(tcs))
    THEN [s EXCEPT !.pc = "global", !.index = index]
    ELSE [s EXCEPT !.pc = "prio", !.parent = Len(globalTcOf(tcs))]

\* mutant of EnterFilter: the filtered groups are never attached
EnterFilter_noGroups(s, tcs) ==
    [s EXCEPT !.parent = s.parent + 1, !.index = 0,
              !.currentHandler = s.parent + 4, !.chains = <<>>,
              !.ipset = "", !.i = 0, !.visited = {}, !.pc = "iptables"]

\* lines 142-152, and the loop head of line 153
EnterFilter(s, tcs) ==
    [s EXCEPT !.parent = s.parent + 1, !.index = 0,
              !.currentHandler = firstHandler(s.parent + 1), !.chains = <<>>,
              !.ipset = "", !.i = 0, !.visited = {},
              !.pc = IF filterKeys(tcs) = {} THEN "iptables" ELSE "filter"]

\* a tc command run in p's namespace: logged, applied by the kernel, and on
\* failure returned as encodeOutputToError's error with a stack
RunTcAdd(p, argv, sOk, sFail) ==
    \E o \in RunCommand(ctxDone(p), KernelAdd(qdiscs[nsPathOf(p)], argv),
                        [ok |-> FALSE, err |-> NilErr, output |-> <<>>,
                         tree |-> qdiscs[nsPathOf(p)]]) :
       /\ ops' = [ops EXCEPT ![p] = Append(@, TcOp(argv, o))]
       /\ qdiscs' = [qdiscs EXCEPT ![nsPathOf(p)] = o.tree]
       /\ st' = [st EXCEPT ![p] =
                   IF o.ok THEN sOk
                   ELSE Return(sFail, WithStack(encodeOutputToError(o.output, o.err)))]
       /\ UNCHANGED <<req, iptChains, cancelled, codec, redis>>

\* mutant of RunAddTc: the command is run for every rule, and a rule without
\* a supported payload is noticed only by the tool
RunAddTc_commandFirst(p, parentArg, handleArg, tc, sOk, sFail) ==
    IF addTcError(tc).nil
    THEN RunTcAdd(p, addTcArgv(parentArg, handleArg, tc), sOk, sFail)
    ELSE RunTcAdd(p, <<"tc", "qdisc", "add", "dev", "eth0">> \o parentArg \o handleArg
                       \o <<"netem", "delay", "0">>, sOk, sFail)

\* addTc: a rule without a supported payload returns before any command
RunAddTc(p, parentArg, handleArg, tc, sOk, sFail) ==
    IF addTcError(tc).nil
    THEN RunTcAdd(p, addTcArgv(parentArg, handleArg, tc), sOk, sFail)
    ELSE /\ st' = [st EXCEPT ![p] = Return(sFail, WithStack(addTcError(tc)))]
         /\ UNCHANGED <<req, ops, qdiscs, iptChains, cancelled, codec, redis>>

\* lines 71-77
Start(p) ==
    /\ st[p].pc = "start"
    /\ \E e \in GetPid :
          st' = [st EXCEPT ![p] = IF e.nil THEN [@ EXCEPT !.pc = "flush"]
                                  ELSE Return(@, WithStack(e))]
    /\ UNCHANGED <<req, ops, qdiscs, iptChains, cancelled, codec, redis>>

\* mutant of FlushGuard: a per-target lock keeps an invocation from flushing
\* while another one is working on the same namespace
FlushGuard_perTargetLock(p) ==
    /\ st[p].pc = "flush"
    /\ \A q \in Procs \ {p} :
          req[q].ns = req[p].ns => st[q].pc \in {"idle", "start", "flush", "done"}

\* line 79: flush is called as soon as the namespace is known; nothing is
\* locked or awaited
FlushGuard(p) == st[p].pc = "flush"

\* lines 79-81 and tcClient.flush
Flush(p) ==
    /\ FlushGuard(p)
    /\ \E o \in RunCommand(ctxDone(p), KernelDelRoot(qdiscs[nsPathOf(p)]),
                           [ok |-> FALSE, err |-> NilErr, output |-> <<>>,
                            tree |-> qdiscs[nsPathOf(p)]]) :
          LET e == IF o.ok THEN NilErr ELSE flushError(o.output, o.err)
          IN  /\ ops' = [ops EXCEPT ![p] = Append(@, TcOp(flushArgv, o))]
              /\ qdiscs' = [qdiscs EXCEPT ![nsPathOf(p)] = o.tree]
              /\ st' = [st EXCEPT ![p] =
                          IF e.nil THEN EnterGlobal(@, req[p].Tcs, 0)
                          ELSE Return(@, WithStack(e))]
    /\ UNCHANGED <<req, iptChains, cancelled, codec, redis>>

\* lines 119-132: one iteration of the global loop
AddGlobal(p) ==
    /\ st[p].pc = "global"
    /\ LET s == st[p]
           tc == globalTcOf(req[p].Tcs)[s.index + 1]
       IN  RunAddTc(p, globalParentArg(s.index), globalHandleArg(s.index), tc,
                    EnterGlobal(s, req[p].Tcs, s.index + 1), s)

\* lines 136-140 and addPrio lines 249-258
AddPrio(p) ==
    /\ st[p].pc = "prio"
    /\ LET s == st[p]
       IN  RunTcAdd(p, prioArgv(s.parent, prioBand(req[p].Tcs)),
                    [s EXCEPT !.pc = "sfq", !.index = 1], s)

\* addPrio lines 260-267: one iteration of the sfq loop
AddSfq(p) ==
    /\ st[p].pc = "sfq"
    /\ LET s == st[p]
       IN  RunTcAdd(p, sfqArgv(s.parent, s.index),
                    IF s.index < 3 THEN [s EXCEPT !.index = s.index + 1]
                    ELSE EnterFilter(s, req[p].Tcs), s)

\* mutant of AddFilter: the descriptor is appended inside the inner loop, once
\* for every rule of the group
AddFilter_chainPerRule(p) ==
    /\ st[p].pc = "filter"
    /\ LET s == st[p]
           keys == filterKeys(req[p].Tcs)
       IN  \E ipset \in (IF s.ipset = "" THEN keys \ s.visited ELSE {s.ipset}) :
              LET tcs == filterTcOf(req[p].Tcs, ipset)
                  tc == tcs[s.i + 1]
                  parentArg == filterParentArg(s.parent, s.index, s.i, s.currentHandler)
                  s1 == [s EXCEPT !.currentHandler = s.currentHandler + 1, !.ipset = ipset]
                  handleArg == filterHandleArg(s1.currentHandler)
                  s2 == [s1 EXCEPT
                           !.chains = Append(s.chains, chainOf(s.index, ipset, s.parent))]
                  sNext == [s2 EXCEPT !.i = s.i + 1]
                  sEnd == [s2 EXCEPT
                             !.index = s.index + 1, !.i = 0, !.ipset = "",
                             !.visited = s.visited \cup {ipset},
                             !.pc = IF s.visited \cup {ipset} = keys
                                    THEN "iptables" ELSE "filter"]
              IN  RunAddTc(p, parentArg, handleArg, tc,
                           IF s.i + 1 < Len(tcs) THEN sNext ELSE sEnd, s1)

\* lines 153-178: one iteration of the inner loop; ranging over the map
\* filterTc yields each key once, in an order the language leaves open
AddFilter(p) ==
    /\ st[p].pc = "filter"
    /\ LET s == st[p]
           keys == filterKeys(req[p].Tcs)
       IN  \E ipset \in (IF s.ipset = "" THEN keys \ s.visited ELSE {s.ipset}) :
              LET tcs == filterTcOf(req[p].Tcs, ipset)
                  tc == tcs[s.i + 1]
                  parentArg == filterParentArg(s.parent, s.index, s.i, s.currentHandler)
                  s1 == [s EXCEPT !.currentHandler = s.currentHandler + 1, !.ipset = ipset]
                  handleArg == filterHandleArg(s1.currentHandler)
                  sNext == [s1 EXCEPT !.i = s.i + 1]
                  sEnd == [s1 EXCEPT
                             !.chains = Append(s.chains, chainOf(s.index, ipset, s.parent)),
                             !.index = s.index + 1, !.i = 0, !.ipset = "",
                             !.visited = s.visited \cup {ipset},
                             !.pc = IF s.visited \cup {ipset} = keys
                                    THEN "iptables" ELSE "filter"]
              IN  RunAddTc(p, parentArg, handleArg, tc,
                           IF s.i + 1 < Len(tcs) THEN sNext ELSE sEnd, s1)

\* lines 179-184
SetIptablesChains(p) ==
    /\ st[p].pc = "iptables"
    /\ \E o \in RunCommand(ctxDone(p), IptablesSet(iptChains[nsPathOf(p)], st[p].chains),
                           [ok |-> FALSE, err |-> NilErr,
                            installed |-> iptChains[nsPathOf(p)]]) :
          /\ ops' = [ops EXCEPT ![p] =
                       Append(@, [kind |-> "iptables", argv |-> <<>>,
                                  chains |-> st[p].chains, ok |-> o.ok, err |-> o.err,
                                  output |-> <<>>])]
          /\ iptChains' = [iptChains EXCEPT ![nsPathOf(p)] = o.installed]
          /\ st' = [st EXCEPT ![p] = Return(@, WithStack(o.err))]
    /\ UNCHANGED <<req, qdiscs, cancelled, codec, redis>>

DoStart == \E p \in Procs : Start(p)
DoFlush == \E p \in Procs : Flush(p)
DoAddGlobal == \E p \in Procs : AddGlobal(p)
DoAddPrio == \E p \in Procs : AddPrio(p)
DoAddSfq == \E p \in Procs : AddSfq(p)
DoAddFilter == \E p \in Procs : AddFilter(p)
DoSetIptablesChains == \E p \in Procs : SetIptablesChains(p)

Next ==
    \/ DoStart
    \/ DoFlush
    \/ DoAddGlobal
    \/ DoAddPrio
    \/ DoAddSfq
    \/ DoAddFilter
    \/ DoSetIptablesChains

Spec == Init /\ [][Next]_vars

(***************************************************************************)
(* Repeated invocation: the caller runs SetContainerTcRules a second time  *)
(* with the same request on the same namespace, after the first returned.   *)
(***************************************************************************)
\* the requests of the specifications with two invocations
PairTcLists ==
    LET rules == {NetemTc("", 50000), NetemTc("A", 50000), NetemTc("B", 100000), TbfTc("A")}
    IN  UNION {[1..n -> rules] : n \in 0..2} \cup {ExampleTcs}

InitAgain ==
    /\ \E tcs \in PairTcLists : req = [p \in Procs |-> [ns |-> "ns1", Tcs |-> tcs]]
    /\ st = [p \in Procs |-> IF p = 1 THEN [IdleSt EXCEPT !.pc = "start"] ELSE IdleSt]
    /\ ops = [p \in Procs |-> <<>>]
    /\ \E t \in PriorTrees : qdiscs = [ns \in Namespaces |-> IF ns = "ns1" THEN t ELSE {}]
    /\ iptChains = [ns \in Namespaces |-> <<>>]
    /\ cancelled = [p \in Procs |-> FALSE]
    /\ codec = CodecIdle
    /\ redis = RedisIdle

\* the caller invokes again once the earlier invocation has returned
InvokeAgain(p) ==
    /\ st[p].pc = "idle"
    /\ \A q \in Procs \ {p} : st[q].pc = "done"
    /\ st' = [st EXCEPT ![p] = [@ EXCEPT !.pc = "start"]]
    /\ UNCHANGED <<req, ops, qdiscs, iptChains, cancelled, codec, redis>>

DoInvokeAgain == \E p \in Procs : InvokeAgain(p)

NextAgain == Next \/ DoInvokeAgain

SpecAgain == InitAgain /\ [][NextAgain]_vars

(***************************************************************************)
(* Cancellation: the caller's context is cancelled while an invocation is   *)
(* running.                                                                 *)
(***************************************************************************)
InitCancel ==
    /\ \E tcs \in PairTcLists :
          req = [p \in Procs |-> IF p = 1 THEN [ns |-> "ns1", Tcs |-> tcs]
                                 ELSE [ns |-> "ns2", Tcs |-> <<>>]]
    /\ st = [p \in Procs |-> IF p = 1 THEN [IdleSt EXCEPT !.pc = "start"] ELSE IdleSt]
    /\ ops = [p \in Procs |-> <<>>]
    /\ \E t \in PriorTrees : qdiscs = [ns \in Namespaces |-> IF ns = "ns1" THEN t ELSE {}]
    /\ iptChains = [ns \in Namespaces |-> <<>>]
    /\ cancelled = [p \in Procs |-> FALSE]
    /\ codec = CodecIdle
    /\ redis = RedisIdle

\* the request times out or the client goes away: ctx of line 70 is done
Cancel(p) ==
    /\ st[p].pc \notin {"idle", "done"}
    /\ ~cancelled[p]
    /\ cancelled' = [cancelled EXCEPT ![p] = TRUE]
    /\ UNCHANGED <<req, st, ops, qdiscs, iptChains, codec, redis>>

DoCancel == \E p \in Procs : Cancel(p)

NextCancel == Next \/ DoCancel

SpecCancel == InitCancel /\ [][NextCancel]_vars

(***************************************************************************)
(* The argument codec on its own (SpecCodec): a payload is drawn, then      *)
(* encoded.  Every field is either unset or set, in each combination.       *)
(***************************************************************************)
NetemPayloads ==
    [Time : {0, 50000}, Jitter : {0, 10}, DelayCorr : {0, 25}, Reorder : {0, 50},
     ReorderCorr : {0, 75}, Gap : {0, 5}, Limit : {0, 1000}, Loss : {0, 30},
     LossCorr : {0, 20}, Duplicate : {0, 1}, DuplicateCorr : {0, 9},
     Corrupt : {0, 100}, CorruptCorr : {0, 33}]

TbfPayloads ==
    [Rate : {0, 1000}, Buffer : {0, 100}, Limit : {0, 200}, PeakRate : {0, 2000},
     MinBurst : {0, 1500}]

InitCodec ==
    /\ req = [p \in Procs |-> [ns |-> "ns1", Tcs |-> <<>>]]
    /\ st = [p \in Procs |-> IdleSt]
    /\ ops = [p \in Procs |-> <<>>]
    /\ qdiscs = [ns \in Namespaces |-> {}]
    /\ iptChains = [ns \in Namespaces |-> <<>>]
    /\ cancelled = [p \in Procs |-> FALSE]
    /\ \/ \E n \in NetemPayloads : codec = [CodecIdle EXCEPT !.kind = "netem", !.netem = n]
       \/ \E t \in TbfPayloads : codec = [CodecIdle EXCEPT !.kind = "tbf", !.tbf = <<t>>]
    /\ redis = RedisIdle

\* convertNetemToArgs is called on the payload
ConvertNetem ==
    /\ codec.kind = "netem" /\ ~codec.done
    /\ codec' = [codec EXCEPT !.args = convertNetemToArgs(codec.netem), !.done = TRUE]
    /\ UNCHANGED <<req, st, ops, qdiscs, iptChains, cancelled, redis>>

\* convertTbfToArgs is called on the payload
ConvertTbf ==
    /\ codec.kind = "tbf" /\ ~codec.done
    /\ codec' = [codec EXCEPT !.args = convertTbfToArgs(codec.tbf[1]), !.done = TRUE]
    /\ UNCHANGED <<req, st, ops, qdiscs, iptChains, cancelled, redis>>

NextCodec == ConvertNetem \/ ConvertTbf

SpecCodec == InitCodec /\ [][NextCodec]_vars

(***************************************************************************)
(* The redis cache-penetration attack (SpecRedis): the main routine of      *)
(* Attack and the goroutines it starts.  A worker is [n, j, pc]: its        *)
(* argument concurrentNum, its loop counter, and whether its next call is   *)
(* cli.Get or wg.Done.                                                      *)
(***************************************************************************)
\* mutant of CeilDiv: the quotient is truncated
CeilDiv_truncated(a, b) == a \div b

\* line 63, int(math.Ceil(float64(a) / float64(b))) for a >= 0, b >= 1; the
\* float64 quotient of integers of this size rounds to the same ceiling
CeilDiv(a, b) == IF a % b = 0 THEN a \div b ELSE a \div b + 1

\* lines 67-69: the argument of the goroutine started in iteration i
batchOf(frequency, i, concurrentNum) ==
    IF frequency - i * concurrentNum < concurrentNum
    THEN frequency - i * concurrentNum
    ELSE concurrentNum

InitRedis ==
    /\ req = [p \in Procs |-> [ns |-> "ns1", Tcs |-> <<>>]]
    /\ st = [p \in Procs |-> IdleSt]
    /\ ops = [p \in Procs |-> <<>>]
    /\ qdiscs = [ns \in Namespaces |-> {}]
    /\ iptChains = [ns \in Namespaces |-> <<>>]
    /\ cancelled = [p \in Procs |-> FALSE]
    /\ codec = CodecIdle
    /\ \E f \in 0..MaxFrequency, c \in 1..MaxConcurrentNum :
          redis = [RedisIdle EXCEPT !.pc = "start", !.Frequency = f, !.ConcurrentNum = c]

RedisUnchanged == UNCHANGED <<req, st, ops, qdiscs, iptChains, cancelled, codec>>

\* lines 61-65
AttackStart ==
    /\ redis.pc = "start"
    /\ redis' = [redis EXCEPT
                   !.num = CeilDiv(redis.Frequency, redis.ConcurrentNum),
                   !.concurrentNum = redis.ConcurrentNum,
                   !.wg = redis.Frequency,
                   !.pc = "loop"]
    /\ RedisUnchanged

\* lines 66-77: one iteration of the loop starts one goroutine
Spawn ==
    /\ redis.pc = "loop" /\ redis.i < redis.num
    /\ LET c == batchOf(redis.Frequency, redis.i, redis.concurrentNum)
       IN  redis' = [redis EXCEPT
                       !.concurrentNum = c,
                       !.workers = Append(@, [n |-> c, j |-> 0, pc |-> "get"]),
                       !.i = @ + 1]
    /\ RedisUnchanged

\* lines 72-73: cli.Get returns, whatever the server answered
WorkerGet(w) ==
    /\ redis.pc # "panicked"
    /\ w \in 1..Len(redis.workers)
    /\ redis.workers[w].pc = "get" /\ redis.workers[w].j < redis.workers[w].n
    /\ redis' = [redis EXCEPT !.gets = @ + 1, !.workers[w].pc = "done"]
    /\ RedisUnchanged

\* line 74 and the loop's j++: wg.Done panics on a counter that would go
\* below zero
WorkerDone(w) ==
    /\ redis.pc # "panicked"
    /\ w \in 1..Len(redis.workers)
    /\ redis.workers[w].pc = "done"
    /\ redis' = IF redis.wg = 0
                THEN [redis EXCEPT !.pc = "panicked"]
                ELSE [redis EXCEPT !.wg = @ - 1, !.dones = @ + 1,
                                   !.workers[w].j = @ + 1, !.workers[w].pc = "get"]
    /\ RedisUnchanged

\* lines 89-92: wg.Wait returns once the counter is zero, and Attack returns
Wait ==
    /\ redis.pc = "loop" /\ redis.i >= redis.num
    /\ redis.wg = 0
    /\ redis' = [redis EXCEPT !.pc = "done"]
    /\ RedisUnchanged

DoWorkerGet == \E w \in 1..MaxFrequency : WorkerGet(w)
DoWorkerDone == \E w \in 1..MaxFrequency : WorkerDone(w)

NextRedis ==
    \/ AttackStart
    \/ Spawn
    \/ DoWorkerGet
    \/ DoWorkerDone
    \/ Wait

SpecRedis == InitRedis /\ [][NextRedis]_vars

\* the scheduler lets the main routine and every goroutine that can run take
\* a step eventually
FairSpecRedis ==
    /\ InitRedis /\ [][NextRedis]_vars
    /\ WF_vars(AttackStart) /\ WF_vars(Spawn) /\ WF_vars(Wait)
    /\ \A w \in 1..MaxFrequency : WF_vars(WorkerGet(w)) /\ WF_vars(WorkerDone(w))

(***************************************************************************)
(* Concurrent invocations: on different namespaces (SpecPar) and on the     *)
(* same namespace (SpecRace).                                               *)
(***************************************************************************)
ParTcLists ==
    {<<>>, <<NetemTc("", 50000)>>, <<NetemTc("A", 50000), NetemTc("B", 100000)>>}

InitPar ==
    /\ \E t1 \in ParTcLists, t2 \in ParTcLists :
          req = [p \in Procs |-> IF p = 1 THEN [ns |-> "ns1", Tcs |-> t1]
                                 ELSE [ns |-> "ns2", Tcs |-> t2]]
    /\ st = [p \in Procs |-> [IdleSt EXCEPT !.pc = "start"]]
    /\ ops = [p \in Procs |-> <<>>]
    /\ \E t \in PriorTrees : qdiscs = [ns \in Namespaces |-> IF ns = "ns1" THEN t ELSE {}]
    /\ iptChains = [ns \in Namespaces |-> <<>>]
    /\ cancelled = [p \in Procs |-> FALSE]
    /\ codec = CodecIdle
    /\ redis = RedisIdle

SpecPar == InitPar /\ [][Next]_vars

RaceTcLists ==
    {<<NetemTc("", 50000)>>, <<NetemTc("", 100000)>>, <<NetemTc("A", 50000)>>}

InitRace ==
    /\ \E t1 \in RaceTcLists, t2 \in RaceTcLists :
          req = [p \in Procs |-> [ns |-> "ns1", Tcs |-> IF p = 1 THEN t1 ELSE t2]]
    /\ st = [p \in Procs |-> [IdleSt EXCEPT !.pc = "start"]]
    /\ ops = [p \in Procs |-> <<>>]
    /\ \E t \in PriorTrees : qdiscs = [ns \in Namespaces |-> IF ns = "ns1" THEN t ELSE {}]
    /\ iptChains = [ns \in Namespaces |-> <<>>]
    /\ cancelled = [p \in Procs |-> FALSE]
    /\ codec = CodecIdle
    /\ redis = RedisIdle

SpecRace == InitRace /\ [][Next]_vars

(***************************************************************************)
(* Properties.  They are read off the log of invocation 1 and its request,  *)
(* with the counts g, f and k taken from the request itself.                *)
(***************************************************************************)
Log == ops[1]
Tcs == req[1].Tcs
Done == st[1].pc = "done"
Succeeded == Done /\ st[1].ret.nil

GlobalIdx == {j \in 1..Len(Tcs) : Tcs[j].Ipset = ""}
FilterIdx == {j \in 1..Len(Tcs) : Tcs[j].Ipset # ""}
\* g: global rules, f: filtered rules, k: distinct destination sets
NumG == Cardinality(GlobalIdx)
NumF == Cardinality(FilterIdx)
Sets == {Tcs[j].Ipset : j \in FilterIdx}
NumK == Cardinality(Sets)

\* the i-th global rule of the input, 1-indexed
NthGlobal(i) ==
    Tcs[CHOOSE j \in GlobalIdx : Cardinality({m \in GlobalIdx : m <= j}) = i]

\* the j-th destination set in order of first occurrence, 0-indexed
FirstAt(set) == CHOOSE j \in FilterIdx :
                   Tcs[j].Ipset = set /\ \A m \in FilterIdx : Tcs[m].Ipset = set => j <= m
NthSet(j) == CHOOSE set \in Sets :
                Cardinality({o \in Sets : FirstAt(o) < FirstAt(set)}) = j

IsFlush(op) == op.kind = "tc" /\ op.argv = flushArgv
IsAdd(op) == op.kind = "tc" /\ Len(op.argv) >= 9 /\ op.argv[3] = "add"
IsIptables(op) == op.kind = "iptables"

\* the error of the function that issued the operation: flush, addTc or
\* addPrio, setIptablesChains
StepErr(op) ==
    IF op.ok THEN NilErr
    ELSE IF IsFlush(op) THEN flushError(op.output, op.err)
    ELSE IF op.kind = "tc" THEN encodeOutputToError(op.output, op.err)
    ELSE op.err

\* the qdiscs created by the successful adds among the first n operations
Created(log, n) == {TcQdisc(log[m].argv) : m \in {x \in 1..n : IsAdd(log[x]) /\ log[x].ok}}

\* the number a handle token "N:" names
HandleNum(tok) ==
    IF \E n \in 0..(2 * MaxTcs + 6) : Itoa(n) \o ":" = tok
    THEN CHOOSE n \in 0..(2 * MaxTcs + 6) : Itoa(n) \o ":" = tok
    ELSE -1

\* C1: every qdisc add that is issued names as its parent root, or a handle
\* created by an earlier successful add of the same invocation, or a band b
\* of the prio qdisc created earlier with 1 <= b <= its band count.
C1_ParentExistsBeforeAdd ==
    \A n \in 1..Len(Log) :
       IsAdd(Log[n]) => ParentIn(Created(Log, n - 1), TcParent(Log[n].argv))

\* C1 witness: a completed compilation with a global chain, a filtered group
\* rooted at band 4 and a second rule of a group parented at the first
C1_Witness ==
    /\ Succeeded
    /\ NumG >= 1
    /\ \E n \in 1..Len(Log) : IsAdd(Log[n]) /\ TcParent(Log[n].argv) = "2:4"
    /\ \E n \in 1..Len(Log) : IsAdd(Log[n]) /\ TcParent(Log[n].argv) = "6:"

\* what a position of the log must hold when the compilation got that far
IsRuleAdd(op) == IsAdd(op) /\ TcKind(op.argv) \in {"netem", "tbf"}
IsPrioAdd(op) == IsAdd(op) /\ TcKind(op.argv) = "prio"
IsSfqAdd(op) == IsAdd(op) /\ TcKind(op.argv) = "sfq"

\* C2: the external operations occur in the order flush, global adds, prio
\* add, three sfq adds, filtered adds, and last one call of the packet-filter
\* collaborator with the full descriptor list; the collaborator is called
\* only after every preceding operation succeeded, at most once, and exactly
\* once by a compilation that succeeds.
C2_OperationOrder ==
    /\ \A n \in 1..Len(Log) :
          /\ n = 1 => IsFlush(Log[n])
          /\ (2 <= n /\ n <= NumG + 1) => IsRuleAdd(Log[n])
          /\ n = NumG + 2 => IsPrioAdd(Log[n])
          /\ (NumG + 3 <= n /\ n <= NumG + 5) => IsSfqAdd(Log[n])
          /\ (NumG + 6 <= n /\ n <= NumG + 5 + NumF) => IsRuleAdd(Log[n])
          /\ n <= NumG + 6 + NumF
          /\ n = NumG + 6 + NumF =>
                /\ IsIptables(Log[n])
                /\ \A m \in 1..(n - 1) : StepErr(Log[m]).nil
                /\ Len(Log[n].chains) = NumK
                /\ {Log[n].chains[j].Ipsets : j \in 1..NumK} = {<<set>> : set \in Sets}
    /\ Succeeded => Len(Log) = NumG + 6 + NumF

\* C2 witness: a successful compilation with global rules, two destination
\* sets and the collaborator called with both descriptors
C2_Witness ==
    /\ Succeeded
    /\ NumG >= 1 /\ NumK = 2
    /\ IsIptables(Log[Len(Log)]) /\ Len(Log[Len(Log)].chains) = 2

\* C3 as stated: when an external operation fails, it is the last operation
\* issued, what was applied stays applied, and SetContainerTcRules returns
\* that operation's error unchanged.
C3_ReturnsErrorUnchanged ==
    \A n \in 1..Len(Log) :
       ~StepErr(Log[n]).nil =>
          /\ n = Len(Log) /\ Done
          /\ Created(Log, n) \subseteq qdiscs[req[1].ns]
          /\ st[1].ret = StepErr(Log[n])

\* C3 amended: when an external operation fails, it is the last operation
\* issued, what was applied stays applied, and SetContainerTcRules returns
\* that operation's error with a stack trace attached (errors.WithStack):
\* the same message and cause, but not the same error value.
C3_AbortsAndReturnsWrappedError ==
    \A n \in 1..Len(Log) :
       ~StepErr(Log[n]).nil =>
          /\ n = Len(Log) /\ Done
          /\ Created(Log, n) \subseteq qdiscs[req[1].ns]
          /\ st[1].ret = WithStack(StepErr(Log[n]))
          /\ Cause(st[1].ret) = StepErr(Log[n])

\* C3 witness: the third operation failed after two were applied
C3_Witness ==
    /\ Len(Log) = 3 /\ ~Log[3].ok /\ Log[2].ok
    /\ Done /\ ~st[1].ret.nil
    /\ Created(Log, 2) # {}

\* C4: flush succeeds when the delete command fails with either of the two
\* nothing-to-remove messages, so the compilation goes on past a flush of a
\* namespace without root qdisc.
C4_FlushToleratesBothMessages ==
    \A n \in 1..Len(Log) :
       (/\ IsFlush(Log[n]) /\ ~Log[n].ok
        /\ \/ Contains(Log[n].output, ruleNotExist)
           \/ Contains(Log[n].output, ruleNotExistLowerVersion))
       => ~(Done /\ Len(Log) = n /\ ~st[1].ret.nil)

\* C5: the i-th global rule of the input is added by the i-th add, with
\* handle i: and parent root if i = 1 and (i-1): otherwise.
C5_GlobalChainHandles ==
    \A i \in 1..NumG :
       i + 1 <= Len(Log) =>
          Log[i + 1].argv =
             addTcArgv(IF i = 1 THEN <<"root">> ELSE <<"parent", Itoa(i - 1) \o ":">>,
                       <<"handle", Itoa(i) \o ":">>, NthGlobal(i))

\* C5 witness: two global rules added around a filtered rule of the input
C5_Witness ==
    /\ NumG = 2 /\ Len(Tcs) = 3 /\ Tcs[2].Ipset # ""
    /\ Tcs[1] # Tcs[3]
    /\ Len(Log) >= 3 /\ Log[2].ok /\ Log[3].ok

\* C6: the prio qdisc is installed with 3 + k bands, k the number of distinct
\* non-empty destination sets.
C6_PrioBands ==
    \A n \in 1..Len(Log) :
       IsPrioAdd(Log[n]) =>
          /\ Log[n].argv[TcHandleAt(Log[n].argv) + 2] = "bands"
          /\ Log[n].argv[TcHandleAt(Log[n].argv) + 3] = Itoa(3 + NumK)

\* C6 witness: a prio add for a request in which one destination set carries
\* two rules and another carries one
C6_Witness ==
    /\ NumF = 3 /\ NumK = 2
    /\ \E n \in 1..Len(Log) : IsPrioAdd(Log[n]) /\ Log[n].ok

\* C7: the prio qdisc has handle (g+1): and parent root when g = 0 and g:
\* otherwise; the sfq leaves follow in order with handles g+2, g+3, g+4 and
\* parents (g+1):1, (g+1):2, (g+1):3.
C7_PrioAndSfqHandles ==
    /\ NumG + 2 <= Len(Log) =>
          /\ TcHandle(Log[NumG + 2].argv) = Itoa(NumG + 1) \o ":"
          /\ TcKind(Log[NumG + 2].argv) = "prio"
          /\ SubSeq(Log[NumG + 2].argv, 6, TcHandleAt(Log[NumG + 2].argv) - 2) =
                (IF NumG = 0 THEN <<"root">> ELSE <<"parent", Itoa(NumG) \o ":">>)
    /\ \A b \in 1..3 :
          NumG + 2 + b <= Len(Log) =>
             Log[NumG + 2 + b].argv =
                <<"tc", "qdisc", "add", "dev", "eth0",
                  "parent", Itoa(NumG + 1) \o ":" \o Itoa(b),
                  "handle", Itoa(NumG + 1 + b) \o ":", "sfq">>

\* C7 witness: prio and the three sfq leaves added below two global rules,
\* and in another run at the root
C7_Witness ==
    /\ NumG = 2 /\ Len(Log) >= 7
    /\ \A n \in 4..7 : Log[n].ok

C7_WitnessRoot ==
    /\ NumG = 0 /\ Len(Log) >= 5
    /\ \A n \in 2..5 : Log[n].ok

\* C8: the handles of the filtered adds are greater than g+4 and strictly
\* increasing in processing order, and no two adds of a compilation use the
\* same handle.
C8_FilteredHandles ==
    /\ \A n \in (NumG + 6)..Len(Log) :
          IsAdd(Log[n]) =>
             /\ HandleNum(TcHandle(Log[n].argv)) > NumG + 4
             /\ n > NumG + 6 =>
                   HandleNum(TcHandle(Log[n].argv)) > HandleNum(TcHandle(Log[n - 1].argv))
    /\ \A n, m \in 1..Len(Log) :
          (IsAdd(Log[n]) /\ IsAdd(Log[m]) /\ n # m) =>
             TcHandle(Log[n].argv) # TcHandle(Log[m].argv)

\* C8 witness: three filtered adds, two of them for the same destination set
C8_Witness ==
    /\ NumF = 3 /\ NumK = 2 /\ Succeeded
    /\ Len(Log) = NumG + 9

\* C9: the descriptors are produced in the order in which each destination
\* set first occurs in the input: the j-th first-seen set gets chain
\* TC-TABLES-j and band j+4.
C9_DescriptorsInFirstSeenOrder ==
    \A n \in 1..Len(Log) :
       IsIptables(Log[n]) =>
          \A j \in 0..(NumK - 1) :
             /\ j + 1 <= Len(Log[n].chains)
             /\ Log[n].chains[j + 1] =
                   [Name |-> "TC-TABLES-" \o Itoa(j), Direction |-> "OUTPUT",
                    Ipsets |-> <<NthSet(j)>>,
                    Target |-> <<"CLASSIFY", "--set-class",
                                 Itoa(NumG + 1) \o ":" \o Itoa(j + 4)>>]

\* the operations of the worked example in the comment of
\* SetContainerTcRules, lines 95-105
NetemAdd(parentArg, handle, delay) ==
    <<"tc", "qdisc", "add", "dev", "eth0">> \o parentArg
      \o <<"handle", handle, "netem", "delay", delay>>

ExampleAdds ==
    <<NetemAdd(<<"root">>, "1:", "50000"),
      NetemAdd(<<"parent", "1:">>, "2:", "100000"),
      <<"tc", "qdisc", "add", "dev", "eth0", "parent", "2:", "handle", "3:", "prio",
        "bands", "5", "priomap",
        "1", "2", "2", "2", "1", "2", "0", "0", "1", "1", "1", "1", "1", "1", "1", "1">>,
      <<"tc", "qdisc", "add", "dev", "eth0", "parent", "3:1", "handle", "4:", "sfq">>,
      <<"tc", "qdisc", "add", "dev", "eth0", "parent", "3:2", "handle", "5:", "sfq">>,
      <<"tc", "qdisc", "add", "dev", "eth0", "parent", "3:3", "handle", "6:", "sfq">>,
      NetemAdd(<<"parent", "3:4">>, "7:", "50000"),
      NetemAdd(<<"parent", "3:5">>, "8:", "100000")>>

ExampleChains ==
    <<[Name |-> "TC-TABLES-0", Direction |-> "OUTPUT", Ipsets |-> <<"A">>,
       Target |-> <<"CLASSIFY", "--set-class", "3:4">>],
      [Name |-> "TC-TABLES-1", Direction |-> "OUTPUT", Ipsets |-> <<"B">>,
       Target |-> <<"CLASSIFY", "--set-class", "3:5">>]>>

\* C10: for the four rules of the worked example a successful compilation
\* issues, after the flush, exactly the eight adds of the example and hands
\* over exactly its two descriptors.
C10_WorkedExample ==
    (Tcs = ExampleTcs /\ Succeeded) =>
       /\ Len(Log) = 10
       /\ IsFlush(Log[1])
       /\ \A n \in 1..8 : Log[n + 1].argv = ExampleAdds[n]
       /\ IsIptables(Log[10]) /\ Log[10].chains = ExampleChains

\* the example's operations are what the compilation issues when the map
\* happens to yield set A before set B
C10_ExampleReached ==
    /\ Tcs = ExampleTcs /\ Succeeded
    /\ \A n \in 1..8 : Log[n + 1].argv = ExampleAdds[n]
    /\ Log[10].chains = ExampleChains

(***************************************************************************)
(* Properties of repeated invocation (SpecAgain).                           *)
(***************************************************************************)
SucceededP(p) == st[p].pc = "done" /\ st[p].ret.nil

\* the tree a successful invocation p left behind: what its adds created
\* after its flush
TreeLeftBy(p) == Created(ops[p], Len(ops[p]))

\* C11: a successful invocation leaves the same qdisc tree whatever the
\* namespace held before, and invoking a second time with the same rules
\* leaves the tree as the first invocation left it.
C11_SecondInvocationSameTree ==
    (SucceededP(1) /\ SucceededP(2)) => qdiscs["ns1"] = TreeLeftBy(1)

\* with at most one destination set both invocations are reached and agree
C11_AgreeReached ==
    /\ SucceededP(1) /\ SucceededP(2)
    /\ Cardinality(filterKeys(req[1].Tcs)) = 1
    /\ qdiscs["ns1"] = TreeLeftBy(1)

(***************************************************************************)
(* Properties of cancellation (SpecCancel).                                 *)
(***************************************************************************)
\* C12: the context is attached to every external command and to the
\* packet-filter client: once it is cancelled, every operation issued
\* afterwards fails, none changes the namespace's qdisc tree or chains, and
\* the call returns an error.
C12_CancelStopsChain ==
    [][/\ cancelled[1] =>
            /\ qdiscs' = qdiscs /\ iptChains' = iptChains
            /\ ops'[1] # ops[1] => ~ops'[1][Len(ops'[1])].ok
       /\ (cancelled'[1] /\ st'[1].pc = "done") => ~st'[1].ret.nil]_vars

\* C12 witness: cancelled after part of the chain was applied; the next
\* command failed with the context's error and the call returned it
C12_Witness ==
    /\ cancelled[1] /\ Done /\ ~st[1].ret.nil
    /\ Len(Log) >= 4
    /\ Log[Len(Log)].err = Errorf(<<"context canceled">>)
    /\ Created(Log, Len(Log)) # {}
    /\ Created(Log, Len(Log)) = qdiscs["ns1"]

(***************************************************************************)
(* Properties of concurrent invocations (SpecPar, SpecRace).                *)
(***************************************************************************)
\* a step of invocation p leaves the other invocation, its log, and the
\* qdisc tree and chains of the other's namespace as they were
NoInterference ==
    \A p \in Procs :
       (st'[p] # st[p] \/ ops'[p] # ops[p]) =>
          \A q \in Procs \ {p} :
             /\ st'[q] = st[q] /\ ops'[q] = ops[q]
             /\ qdiscs'[req[q].ns] = qdiscs[req[q].ns]
             /\ iptChains'[req[q].ns] = iptChains[req[q].ns]

\* once an invocation's flush has returned nil, its namespace holds exactly
\* the qdiscs its own successful adds created, and the packet filter holds
\* exactly its descriptors once it succeeded
OwnTreeOnly ==
    \A p \in Procs :
       /\ (Len(ops[p]) >= 1 /\ StepErr(ops[p][1]).nil) =>
             qdiscs[req[p].ns] = TreeLeftBy(p)
       /\ SucceededP(p) => iptChains[req[p].ns] = st[p].chains

\* C13: two invocations on different namespaces are independent: no step of
\* one touches the other's state or namespace, and under every interleaving
\* each namespace holds what its own invocation's operations built.
C13_DifferentNamespacesIndependent == []OwnTreeOnly /\ [][NoInterference]_vars

\* C13 witness: both invocations are in the middle of their chains, and each
\* namespace holds its own invocation's qdiscs
C13_Witness ==
    /\ st[1].pc = "filter" /\ st[2].pc = "sfq"
    /\ qdiscs["ns1"] = TreeLeftBy(1) /\ qdiscs["ns2"] = TreeLeftBy(2)
    /\ qdiscs["ns1"] # {} /\ qdiscs["ns2"] # {} /\ qdiscs["ns1"] # qdiscs["ns2"]

MidChain == {"global", "prio", "sfq", "filter", "iptables"}

\* C14: nothing keeps an invocation from flushing a namespace on which
\* another invocation is in the middle of its chain.
C14_NotSynchronized ==
    \A p \in Procs : \A q \in Procs \ {p} :
       (req[p].ns = req[q].ns /\ st[p].pc \in MidChain /\ st[q].pc = "flush")
          => ENABLED Flush(q)

\* C14 witness: invocation 1 returned success, yet the namespace does not
\* hold the tree its operations built, nor the tree of invocation 2
C14_Witness ==
    /\ SucceededP(1) /\ st[2].pc = "done"
    /\ qdiscs["ns1"] # TreeLeftBy(1)
    /\ qdiscs["ns1"] # TreeLeftBy(2)

\* the other case of C14: an add is issued for a parent that this
\* invocation created and that the other's flush has removed
C14_ParentGoneReached ==
    /\ st[2].pc \in MidChain
    /\ Len(ops[1]) >= 3
    /\ IsAdd(ops[1][Len(ops[1])]) /\ ~ops[1][Len(ops[1])].ok
    /\ TcParent(ops[1][Len(ops[1])].argv) # "root"
    /\ ParentIn(Created(ops[1], Len(ops[1]) - 1), TcParent(ops[1][Len(ops[1])].argv))
    /\ ~ParentIn(qdiscs["ns1"], TcParent(ops[1][Len(ops[1])].argv))

(***************************************************************************)
(* Properties of addTc and of the argument codec.                           *)
(***************************************************************************)
Unsupported(tc) == ~addTcError(tc).nil

\* the compilation has returned the error addTc gives for the rule tc
AbortedOn(tc) == Unsupported(tc) /\ Done /\ st[1].ret = WithStack(addTcError(tc))

\* the rule adds that succeeded
AppliedRules == {n \in 1..Len(Log) : IsRuleAdd(Log[n]) /\ Log[n].ok}

\* global positions of the input whose rule addTc rejects
BadGlobals == {j \in GlobalIdx : Unsupported(Tcs[j])}

\* C15 as stated: a rejected rule at input position n aborts the compilation
\* after the rules at the positions before it have been applied.
C15_AbortsAfterEarlierInputRules ==
    \A n \in 1..Len(Tcs) :
       (/\ AbortedOn(Tcs[n])
        /\ \A m \in 1..(n - 1) : ~Unsupported(Tcs[m]))
          => Cardinality(AppliedRules) = n - 1

\* the step in which addTc rejects a rule runs no command and changes neither
\* the qdisc tree nor the packet filter
RejectRunsNoCommand ==
    (/\ st[1].pc # "done" /\ st'[1].pc = "done"
     /\ \E tc \in Range(Tcs) : Unsupported(tc) /\ st'[1].ret = WithStack(addTcError(tc)))
       => ops' = ops /\ qdiscs' = qdiscs /\ iptChains' = iptChains

\* the state in which a rejected rule leaves the compilation: everything
\* issued before it succeeded and is in the tree, nothing was issued for it or
\* after it; the rules applied are those processed before it, which are the
\* global rules before the first rejected global rule, or else all global
\* rules, the prio and sfq qdiscs and some of the filtered rules
RejectedAfterProcessedRules ==
    /\ (\E n \in 1..Len(Tcs) : Unsupported(Tcs[n])) => ~Succeeded
    /\ \A tc \in Range(Tcs) :
          AbortedOn(tc) =>
             /\ Len(Log) >= 1 /\ IsFlush(Log[1])
             /\ \A n \in 1..Len(Log) : StepErr(Log[n]).nil /\ ~IsIptables(Log[n])
             /\ qdiscs[req[1].ns] = Created(Log, Len(Log))
             /\ iptChains[req[1].ns] = <<>>
             /\ IF BadGlobals # {}
                THEN LET i == Cardinality({m \in GlobalIdx :
                                             \A b \in BadGlobals : m < b})
                     IN  /\ Len(Log) = 1 + i
                         /\ \A m \in 1..i :
                               /\ IsRuleAdd(Log[1 + m])
                               /\ TcArgs(Log[1 + m].argv) =
                                    TcArgs(addTcArgv(<<"root">>, <<"handle", "1:">>,
                                                     NthGlobal(m)))
                         /\ addTcError(tc) = addTcError(NthGlobal(i + 1))
                ELSE /\ \E j \in FilterIdx : addTcError(Tcs[j]) = addTcError(tc)
                     /\ Len(Log) >= 1 + NumG + 4
                     /\ Cardinality(AppliedRules) = Len(Log) - 5
                     /\ Cardinality(AppliedRules) < NumG + NumF

\* C15 (amended): addTc rejects a rule of an unknown type and a NETEM or
\* BANDWIDTH rule without its payload, and runs no command for it; in
\* SetContainerTcRules the rejection aborts the compilation after the
\* operations of the rules processed before it (global rules first) have been
\* applied, and a request that holds such a rule never succeeds.
C15_RejectedRuleAborts == []RejectedAfterProcessedRules /\ [][RejectRunsNoCommand]_vars

\* C15 witness: a filtered rule is rejected after a global rule, the prio and
\* the sfq qdiscs were added
C15_Witness ==
    /\ \E tc \in Range(Tcs) : AbortedOn(tc) /\ tc.Ipset # ""
    /\ NumG = 1 /\ Len(Log) = 6
    /\ Cardinality(qdiscs[req[1].ns]) = 5

\* C15 witness: each of the three rejections happens
C15_WitnessKinds ==
    /\ Done /\ Len(Tcs) = 2 /\ Len(Log) = 2
    /\ st[1].ret = WithStack(Errorf(<<"tbf is nil while type is BANDWIDTH">>))

\* a BANDWIDTH rule that carries a tbf payload whose rate is not set
NoRate(tc) == tc.Type = "BANDWIDTH" /\ tc.Tbf # Nil /\ tc.Tbf[1].Rate = 0

\* C16: a Bandwidth rule whose rate is 0 is rejected by addTc with an error of
\* its own, and no qdisc add command is executed for it.
C16_ZeroRateRejected ==
    (\E tc \in Range(Tcs) : NoRate(tc)) =>
       \A n \in 1..Len(Log) :
          IsAdd(Log[n]) =>
             ~(TcKind(Log[n].argv) = "tbf"
               /\ SubSeq(TcArgs(Log[n].argv), 1, 2) = <<"rate", "0">>)

\* the tokens of an encoded argument string
Tokens(args) == SeqFilterNonEmpty(args)

\* a token group that is present only under its condition
Opt(cond, toks) == IF cond THEN toks ELSE <<>>

\* the probability group of a keyword: the correlation needs the probability
ProbGroup(keyword, prob, corr) ==
    Opt(prob > 0, <<keyword, Ftoa(prob)>> \o Opt(corr > 0, <<Ftoa(corr)>>))

\* the token sequence the encoding of a Netem payload is to have
NetemTokens(n) ==
    Opt(n.Time > 0,
        <<"delay", Itoa(n.Time)>>
          \o Opt(n.Jitter > 0,
                 <<Itoa(n.Jitter)>> \o Opt(n.DelayCorr > 0, <<Ftoa(n.DelayCorr)>>)))
    \o Opt(n.Time > 0 /\ n.Reorder > 0,
           <<"reorder", Ftoa(n.Reorder)>>
             \o Opt(n.ReorderCorr > 0, <<Ftoa(n.ReorderCorr)>>)
             \o Opt(n.Gap > 0, <<"gap", Itoa(n.Gap)>>))
    \o Opt(n.Limit > 0, <<"limit", Itoa(n.Limit)>>)
    \o ProbGroup("loss", n.Loss, n.LossCorr)
    \o ProbGroup("duplicate", n.Duplicate, n.DuplicateCorr)
    \o ProbGroup("corrupt", n.Corrupt, n.CorruptCorr)

NetemKeywords == <<"delay", "reorder", "gap", "limit", "loss", "duplicate", "corrupt">>

\* the keywords among the tokens, in the order they appear
KeywordsOf(toks) == SelectSeq(toks, LAMBDA t : t \in Range(NetemKeywords))

\* s is strictly increasing
Increasing(s) == \A a \in 1..Len(s) : \A b \in 1..Len(s) : a < b => s[a] < s[b]

KeywordAt(w) == CHOOSE k \in 1..Len(NetemKeywords) : NetemKeywords[k] = w

\* only the first three fields set
OnlyDelay(n, time, jitter) == n = NetemOf(time, jitter, 0)

\* C17: convertNetemToArgs emits the groups in the order delay, reorder,
\* limit, loss, duplicate, corrupt; a token appears only when its field is
\* > 0 and its leading field is present; delay=50000 alone gives
\* [delay, 50000], with jitter=10 [delay, 50000, 10], and reorder without
\* delay gives no reorder token.
C17_NetemEncoding ==
    (codec.kind = "netem" /\ codec.done) =>
       LET n == codec.netem
           toks == Tokens(codec.args)
           kws == KeywordsOf(toks)
       IN  /\ toks = NetemTokens(n)
           /\ Increasing([k \in 1..Len(kws) |-> KeywordAt(kws[k])])
           /\ "delay" \in Range(toks) <=> n.Time > 0
           /\ "reorder" \in Range(toks) <=> (n.Time > 0 /\ n.Reorder > 0)
           /\ "gap" \in Range(toks) <=> (n.Time > 0 /\ n.Reorder > 0 /\ n.Gap > 0)
           /\ "limit" \in Range(toks) <=> n.Limit > 0
           /\ "loss" \in Range(toks) <=> n.Loss > 0
           /\ "duplicate" \in Range(toks) <=> n.Duplicate > 0
           /\ "corrupt" \in Range(toks) <=> n.Corrupt > 0
           /\ OnlyDelay(n, 50000, 0) => toks = <<"delay", "50000">>
           /\ OnlyDelay(n, 50000, 10) => toks = <<"delay", "50000", "10">>

\* C17 witness: every field that depends on an unset leading field is set and
\* is left out, the others are emitted in order
C17_Witness ==
    /\ codec.kind = "netem" /\ codec.done
    /\ codec.netem.Time = 0 /\ codec.netem.Jitter > 0 /\ codec.netem.DelayCorr > 0
    /\ codec.netem.Reorder > 0 /\ codec.netem.ReorderCorr > 0 /\ codec.netem.Gap > 0
    /\ codec.netem.Loss = 0 /\ codec.netem.LossCorr > 0
    /\ codec.args = <<"limit", "1000", "duplicate", "0.010000", "0.090000",
                      "corrupt", "1.000000", "0.330000">>

\* C17 witness: the example with delay and jitter
C17_WitnessJitter ==
    /\ codec.kind = "netem" /\ codec.done
    /\ OnlyDelay(codec.netem, 50000, 10)
    /\ codec.args = <<"delay", "50000", "10">>

\* C18: convertTbfToArgs emits "rate <rate> burst <buffer>" always, then
\* "limit <limit>" exactly when limit > 0, then "peakrate <peakRate> mtu
\* <minBurst>" exactly when peakRate > 0.
C18_TbfEncoding ==
    (codec.kind = "tbf" /\ codec.done) =>
       LET t == codec.tbf[1]
           a == codec.args
       IN  /\ a = <<"rate", Itoa(t.Rate), "burst", Itoa(t.Buffer)>>
                    \o Opt(t.Limit > 0, <<"limit", Itoa(t.Limit)>>)
                    \o Opt(t.PeakRate > 0,
                           <<"peakrate", Itoa(t.PeakRate), "mtu", Itoa(t.MinBurst)>>)
           /\ "limit" \in Range(a) <=> t.Limit > 0
           /\ "peakrate" \in Range(a) <=> t.PeakRate > 0
           /\ "mtu" \in Range(a) <=> t.PeakRate > 0

\* C18 witness: limit and peak rate are set, and mtu is the minimum burst
C18_Witness ==
    /\ codec.kind = "tbf" /\ codec.done
    /\ codec.args = <<"rate", "1000", "burst", "100", "limit", "200",
                      "peakrate", "2000", "mtu", "1500">>

\* C19: no qdisc add command handed to the runner holds an empty token, also
\* for a Netem payload whose fields are all zero.
C19_NoEmptyToken ==
    \A n \in 1..Len(Log) : Log[n].kind = "tc" => "" \notin Range(Log[n].argv)

\* the filtered rules attached among the first n operations: the rule adds
\* that succeeded after the sfq qdiscs
FilteredAdds(n) ==
    {m \in 1..n : IsRuleAdd(Log[m]) /\ Log[m].ok /\ \E k \in 1..(m - 1) : IsSfqAdd(Log[k])}

\* C20 as stated: the number of descriptors handed to the packet-filter
\* collaborator equals the number of filtered rules attached.
C20_DescriptorPerFilteredRule ==
    \A n \in 1..Len(Log) :
       IsIptables(Log[n]) => Len(Log[n].chains) = Cardinality(FilteredAdds(n))

\* C20 (amended): every filtered rule is attached, and the collaborator is
\* handed one descriptor for each distinct destination set, however many
\* rules the set carries.
C20_DescriptorPerDestinationSet ==
    \A n \in 1..Len(Log) :
       IsIptables(Log[n]) =>
          /\ Cardinality(FilteredAdds(n)) = NumF
          /\ Len(Log[n].chains) = NumK
          /\ \A c \in 1..Len(Log[n].chains) : Len(Log[n].chains[c].Ipsets) = 1
          /\ {Log[n].chains[c].Ipsets[1] : c \in 1..Len(Log[n].chains)} = Sets

\* C20 witness: a destination set with two rules, and another with one
C20_Witness ==
    /\ Succeeded /\ NumF = 3 /\ NumK = 2
    /\ Len(Log[Len(Log)].chains) = 2
    /\ Cardinality(FilteredAdds(Len(Log))) = 3

(***************************************************************************)
(* Descriptors and sub-chains.                                              *)
(***************************************************************************)
RECURSIVE SubChain(_, _, _)
\* the qdiscs of a tree that hang, one under the other, below a parent
\* reference; fuel bounds the descent
SubChain(tree, ref, fuel) ==
    IF fuel = 0 \/ ~\E q \in tree : q.parent = ref THEN <<>>
    ELSE LET q == CHOOSE x \in tree : x.parent = ref
         IN  <<q>> \o SubChain(tree, q.handle, fuel - 1)

\* kind and parameters of the qdisc a rule is added as
QdiscOfRule(tc) ==
    LET argv == addTcArgv(<<"root">>, <<"handle", "1:">>, tc)
    IN  [kind |-> TcKind(argv), args |-> TcArgs(argv)]

\* C21: after a successful compilation the descriptor of destination set S
\* carries class (g+1):b, where (g+1): is the prio qdisc and b the band under
\* which the qdiscs of S's rules hang; b lies in 4..3+k, the bands of distinct
\* sets are distinct, and no descriptor names a missing band, a default sfq
\* band or the sub-chain of another set.
C21_DescriptorsAgreeWithSubChains ==
    Succeeded =>
       LET chains == Log[Len(Log)].chains
           tree == qdiscs[req[1].ns]
           prio == Itoa(NumG + 1) \o ":"
       IN  /\ \A c \in 1..Len(chains) :
                 LET S == chains[c].Ipsets[1]
                     cls == chains[c].Target[3]
                     sub == SubChain(tree, cls, Cardinality(tree))
                     rules == filterTcOf(Tcs, S)
                 IN  /\ SubSeq(chains[c].Target, 1, 2) = <<"CLASSIFY", "--set-class">>
                     /\ \E b \in 4..(3 + NumK) : cls = prio \o Itoa(b)
                     /\ \E q \in tree : q.kind = "prio" /\ q.handle = prio
                     /\ ParentIn(tree, cls)
                     /\ \A q \in tree : q.parent = cls => q.kind # "sfq"
                     /\ Cardinality({q \in tree : q.parent = cls}) = 1
                     /\ Len(sub) = Len(rules) /\ Len(rules) >= 1
                     /\ \A k \in 1..Len(sub) :
                           [kind |-> sub[k].kind, args |-> sub[k].args]
                             = QdiscOfRule(rules[k])
           /\ \A c, d \in 1..Len(chains) :
                 c # d => chains[c].Target # chains[d].Target

\* C21 witness: two destination sets, one with two rules; the set seen
\* second in the input was processed first
C21_Witness ==
    /\ Succeeded /\ NumF = 3 /\ NumK = 2
    /\ Len(Log[Len(Log)].chains) = 2
    /\ Log[Len(Log)].chains[1].Ipsets[1] = NthSet(1)
    /\ Len(SubChain(qdiscs[req[1].ns], Log[Len(Log)].chains[1].Target[3], NumF))
         + Len(SubChain(qdiscs[req[1].ns], Log[Len(Log)].chains[2].Target[3], NumF)) = NumF

(***************************************************************************)
(* Properties of the redis cache-penetration attack (FairSpecRedis).        *)
(***************************************************************************)
\* the workers never issue more than Frequency requests or Done calls, the
\* WaitGroup counter is what is left of the Frequency added to it, no Done
\* brings it below zero, and Attack returns only after exactly Frequency
\* requests and Done calls
AttackCounts ==
    /\ redis.pc # "panicked"
    /\ redis.gets <= redis.Frequency /\ redis.dones <= redis.gets
    /\ redis.pc \in {"loop", "done"} => redis.wg = redis.Frequency - redis.dones
    /\ redis.pc = "done" => redis.gets = redis.Frequency /\ redis.dones = redis.Frequency

\* C22: for every Frequency >= 0 and ConcurrentNum >= 1 the workers together
\* issue exactly Frequency Get requests and call wg.Done exactly Frequency
\* times, never more than was added to the WaitGroup, so wg.Wait returns and
\* Attack terminates when the goroutines are scheduled fairly.
C22_PenetrationTerminates == []AttackCounts /\ <>(redis.pc = "done")

\* C22 witness: Frequency is not a multiple of ConcurrentNum; the last
\* goroutine got the remainder, and Attack has returned
C22_Witness ==
    /\ redis.pc = "done"
    /\ redis.Frequency = 4 /\ redis.ConcurrentNum = 3
    /\ Len(redis.workers) = 2
    /\ redis.workers[1].n = 3 /\ redis.workers[2].n = 1
    /\ redis.gets = 4 /\ redis.dones = 4

\* C22 witness: nothing to do for Frequency 0
C22_WitnessZero ==
    /\ redis.pc = "done" /\ redis.Frequency = 0 /\ redis.workers = <<>>

====
